---- MODULE Spec2Model ----
(***************************************************************************)
(* A model of the restaurant-review question answering program:           *)
(*   vector.py  builds the Chroma store from the CSV at import time,      *)
(*   main.py    formats retrieved reviews and runs the question loop.     *)
(*                                                                         *)
(* A string is a sequence of characters; a character is a one-character   *)
(* TLA+ string, except the horizontal ellipsis U+2026, written Ellipsis.  *)
(***************************************************************************)
EXTENDS Integers, Sequences, FiniteSets, TLC

VARIABLES
    \* _format_reviews_for_prompt (main.py)
    docs, max_chars, snippets, joined, result, fpc,
    \* module initialisation of vector.py
    csv, chroma_exists, entries, persisted, ipc, error, adding, dataframe,
    documents, ids, runs, existed0, entries0,
    \* main_loop (main.py)
    lpc, user_question, retrieved_docs, reviews_block, invocations,
    response_text, exc, console, steps

fvars == <<docs, max_chars, snippets, joined, result, fpc>>
ivars == <<csv, chroma_exists, entries, persisted, ipc, error, adding, dataframe,
           documents, ids, runs, existed0, entries0>>
lvars == <<lpc, user_question, retrieved_docs, reviews_block, invocations,
           response_text, exc, console, steps>>
vars == <<fvars, ivars, lvars>>

(***************************************************************************)
(* Characters and Python's string methods                                  *)
(***************************************************************************)
Ellipsis == "U+2026"

\* str.strip / str.rstrip without argument remove whitespace characters.
IsSpace(c) == c \in {" ", "\n", "\t"}

RECURSIVE LStrip(_)
LStrip(s) == IF s # <<>> /\ IsSpace(Head(s)) THEN LStrip(Tail(s)) ELSE s

RECURSIVE RStrip(_)
RStrip(s) ==
    IF s # <<>> /\ IsSpace(s[Len(s)]) THEN RStrip(SubSeq(s, 1, Len(s) - 1)) ELSE s

Strip(s) == RStrip(LStrip(s))

\* s.replace("\n", " ")
ReplaceNewlines(s) == [i \in 1..Len(s) |-> IF s[i] = "\n" THEN " " ELSE s[i]]

\* s[:n]: a negative n counts from the end of s.
Slice(s, n) ==
    IF n >= 0
    THEN SubSeq(s, 1, IF n < Len(s) THEN n ELSE Len(s))
    ELSE SubSeq(s, 1, IF Len(s) + n > 0 THEN Len(s) + n ELSE 0)

Digit(d) == <<"0", "1", "2", "3", "4", "5", "6", "7", "8", "9">>[d + 1]

\* str(n) of a non-negative integer
RECURSIVE Str(_)
Str(n) == IF n < 10 THEN <<Digit(n)>> ELSE Str(n \div 10) \o <<Digit(n % 10)>>

\* "\n".join(lines)
RECURSIVE Join(_)
Join(ls) ==
    IF ls = <<>> THEN <<>>
    ELSE IF Len(ls) = 1 THEN ls[1]
    ELSE ls[1] \o <<"\n">> \o Join(Tail(ls))

Fill(c, n) == [i \in 1..n |-> c]

(***************************************************************************)
(* main.py: _format_reviews_for_prompt                                     *)
(***************************************************************************)
Sentinel ==
    <<"N", "o", " ", "m", "a", "t", "c", "h", "i", "n", "g", " ", "r", "e", "v",
      "i", "e", "w", "s", " ", "w", "e", "r", "e", " ", "f", "o", "u", "n", "d",
      " ", "f", "o", "r", " ", "t", "h", "i", "s", " ", "q", "u", "e", "s", "t",
      "i", "o", "n", ".">>

TruncationMarker ==
    <<"\n", Ellipsis, " ", "(", "t", "r", "u", "n", "c", "a", "t", "e", "d", ")">>

SnippetMax == 400
DefaultMaxChars == 1800

\* getattr(d, "page_content", str(d)): the documents are LangChain Documents.
Content(d) == d.page_content

\* A faulty Snippet: newlines are not replaced (C1 depends on the replacement).
SnippetNoCollapse(content) ==
    LET s == Strip(content)
    IN  IF Len(s) > SnippetMax
        THEN RStrip(Slice(s, SnippetMax)) \o <<Ellipsis>>
        ELSE s

\* A faulty Snippet: the 400-character cut keeps its trailing whitespace.
SnippetNoRStrip(content) ==
    LET s == ReplaceNewlines(Strip(content))
    IN  IF Len(s) > SnippetMax
        THEN Slice(s, SnippetMax) \o <<Ellipsis>>
        ELSE s

Snippet(content) ==
    LET s == ReplaceNewlines(Strip(content))
    IN  IF Len(s) > SnippetMax
        THEN RStrip(Slice(s, SnippetMax)) \o <<Ellipsis>>
        ELSE s

LinePrefix(idx) ==
    <<"-", " ", "R", "e", "v", "i", "e", "w", " ", "#">> \o Str(idx) \o <<":", " ">>

\* A faulty Line: the "- Review #i: " prefix is left out.
LineBare(idx, snippet) == snippet

Line(idx, snippet) == LinePrefix(idx) \o snippet

\* A faulty Cutoff: the cut keeps its trailing whitespace.
CutoffNoRStrip(text, limit) ==
    IF Len(text) > limit
    THEN Slice(text, limit) \o TruncationMarker
    ELSE text

\* A faulty Cutoff: one character too many is kept.
CutoffOffByOne(text, limit) ==
    IF Len(text) > limit
    THEN RStrip(Slice(text, limit + 1)) \o TruncationMarker
    ELSE text

Cutoff(text, limit) ==
    IF Len(text) > limit
    THEN RStrip(Slice(text, limit)) \o TruncationMarker
    ELSE text

\* _format_reviews_for_prompt(docs, max_chars)
FormatReviewsForPrompt(ds, limit) ==
    IF ds = <<>>
    THEN Sentinel
    ELSE Cutoff(Join([i \in 1..Len(ds) |-> Line(i, Snippet(Content(ds[i])))]), limit)

\* The inputs of the function: short contents over a three-character alphabet,
\* contents around the 400-character snippet limit, the sentinel text itself.
MaxShort == 3
MaxDocs == 5
MaxCharsSmall == 16

Alphabet == {"a", " ", "\n"}
ShortStrings == UNION {[1..n -> Alphabet] : n \in 0..MaxShort}
LongStrings ==
    {Fill("a", n) \o t : n \in {SnippetMax - 1, SnippetMax}, t \in ShortStrings}
Contents == ShortStrings \cup LongStrings \cup {Sentinel}
BasicContents == {<<"a">>, <<" ">>, Fill("a", SnippetMax + 1)}
Doc(c) == [page_content |-> c]
DocInputs ==
    {<<>>} \cup {<<Doc(c)>> : c \in Contents}
           \cup UNION {[1..n -> {Doc(c) : c \in BasicContents}] : n \in 2..MaxDocs}
MaxCharsInputs == (-1..MaxCharsSmall) \cup {DefaultMaxChars}

FormatInit ==
    /\ docs \in DocInputs
    /\ max_chars \in MaxCharsInputs
    /\ snippets = <<>>
    /\ joined = <<>>
    /\ result = <<>>
    /\ fpc = "call"

FormatIdle ==
    /\ docs = <<>>
    /\ max_chars = DefaultMaxChars
    /\ snippets = <<>>
    /\ joined = <<>>
    /\ result = <<>>
    /\ fpc = "idle"

\* if not docs: return the sentinel
FormatEmpty ==
    /\ fpc = "call"
    /\ docs = <<>>
    /\ result' = Sentinel
    /\ fpc' = "returned"
    /\ UNCHANGED <<docs, max_chars, snippets, joined, ivars, lvars>>

\* the loop over docs, the join and the cutoff
FormatDocs ==
    /\ fpc = "call"
    /\ docs # <<>>
    /\ snippets' = [i \in 1..Len(docs) |-> Snippet(Content(docs[i]))]
    /\ joined' = Join([i \in 1..Len(docs) |-> Line(i, snippets'[i])])
    /\ result' = Cutoff(joined', max_chars)
    /\ fpc' = "returned"
    /\ UNCHANGED <<docs, max_chars, ivars, lvars>>

(***************************************************************************)
(* vector.py: the module's initialisation                                  *)
(***************************************************************************)
TOP_K == 5
RequiredCols == {"Title", "Review", "Rating", "Date"}

\* An empty CSV cell, read by pandas as NaN.
NaN == <<"NaN">>

NoError == [kind |-> "none", missing |-> {}]

\* A faulty _load_dataframe: the column check is left out.
LoadDataframeNoColumnCheck(c) ==
    IF ~c.exists
    THEN [error |-> [kind |-> "FileNotFoundError", missing |-> {}], df |-> <<>>]
    ELSE [error |-> NoError,
          df |-> [i \in 1..Len(c.rows) |->
                    [c.rows[i] EXCEPT
                       !.Title = IF @ = NaN THEN <<>> ELSE @,
                       !.Review = IF @ = NaN THEN <<>> ELSE @]]]

\* _load_dataframe: the exception it raises, or the frame with the empty
\* Title and Review cells replaced by "".
LoadDataframe(c) ==
    IF ~c.exists
    THEN [error |-> [kind |-> "FileNotFoundError", missing |-> {}], df |-> <<>>]
    ELSE IF RequiredCols \ c.columns # {}
    THEN [error |-> [kind |-> "ValueError", missing |-> RequiredCols \ c.columns],
          df |-> <<>>]
    ELSE [error |-> NoError,
          df |-> [i \in 1..Len(c.rows) |->
                    [c.rows[i] EXCEPT
                       !.Title = IF @ = NaN THEN <<>> ELSE @,
                       !.Review = IF @ = NaN THEN <<>> ELSE @]]]

\* _build_documents: row i of the frame (1-based here) has the index label i - 1.
BuildDocuments(df) ==
    [i \in 1..Len(df) |->
        [page_content |-> Strip(df[i].Title \o <<" ">> \o df[i].Review),
         metadata |-> [rating |-> df[i].Rating, date |-> df[i].Date,
                       source_row |-> i - 1]]]

BuildIds(df) == [i \in 1..Len(df) |-> Str(i - 1)]

\* A faulty _should_add_documents: the directory is not looked at.
ShouldAddAlways(exists) == TRUE

\* _should_add_documents
ShouldAddDocuments(exists) == ~exists

\* vector_store.add_documents(documents=..., ids=...): an entry per id, an
\* entry with the same id replaced.
AddDocuments(store, ds, is) ==
    LET new == [i \in 1..Len(ds) |->
                  [id |-> is[i], page_content |-> ds[i].page_content,
                   metadata |-> ds[i].metadata]]
        kept == SelectSeq(store, LAMBDA e : \A i \in 1..Len(is) : is[i] # e.id)
    IN  kept \o new

MaxRows == 2
MaxRuns == 2

TitleValues == {NaN, <<" ", "a">>}
ReviewValues == {NaN, <<"b">>}
RowValues ==
    [Title : TitleValues, Review : ReviewValues, Rating : {4, 5}, Date : {"2024-01-01"}]
ColumnSets == SUBSET (RequiredCols \cup {"title"})
CsvInputs ==
    {[exists |-> FALSE, columns |-> {}, rows |-> <<>>]}
    \cup {[exists |-> TRUE, columns |-> cs, rows |-> <<>>] :
            cs \in {x \in ColumnSets : RequiredCols \ x # {}}}
    \cup {[exists |-> TRUE, columns |-> cs, rows |-> rs] :
            cs \in {x \in ColumnSets : RequiredCols \subseteq x},
            rs \in UNION {[1..n -> RowValues] : n \in 0..MaxRows}}

\* What an existing store may hold from an earlier indexing.
StaleEntries ==
    <<[id |-> <<"0">>, page_content |-> <<"o", "l", "d">>,
       metadata |-> [rating |-> 1, date |-> "2023-01-01", source_row |-> 0]]>>

IndexInit ==
    /\ csv \in CsvInputs
    /\ chroma_exists \in BOOLEAN
    /\ entries \in (IF chroma_exists THEN {<<>>, StaleEntries} ELSE {<<>>})
    /\ persisted = TRUE
    /\ ipc = "open"
    /\ error = NoError
    /\ adding = FALSE
    /\ dataframe = <<>>
    /\ documents = <<>>
    /\ ids = <<>>
    /\ runs = 1
    /\ existed0 = chroma_exists
    /\ entries0 = entries

IndexIdle ==
    /\ csv = [exists |-> FALSE, columns |-> {}, rows |-> <<>>]
    /\ chroma_exists = FALSE
    /\ entries = <<>>
    /\ persisted = TRUE
    /\ ipc = "idle"
    /\ error = NoError
    /\ adding = FALSE
    /\ dataframe = <<>>
    /\ documents = <<>>
    /\ ids = <<>>
    /\ runs = 0
    /\ existed0 = FALSE
    /\ entries0 = <<>>

\* vector_store = Chroma(..., persist_directory=CHROMA_DIR): opens the
\* collection. What the constructor does to a missing directory is the store
\* package's: a persistent client creates it at once (with an empty
\* collection), a lazy one leaves it to the first write. Both are kept.
OpenStore ==
    /\ ipc = "open"
    /\ chroma_exists' \in {chroma_exists, TRUE}
    /\ ipc' = "check"
    /\ UNCHANGED <<csv, entries, persisted, error, adding, dataframe, documents,
                   ids, runs, existed0, entries0, fvars, lvars>>

\* if _should_add_documents(CHROMA_DIR):
CheckShouldAdd ==
    /\ ipc = "check"
    /\ adding' = ShouldAddDocuments(chroma_exists)
    /\ ipc' = IF adding' THEN "load" ELSE "export"
    /\ UNCHANGED <<csv, chroma_exists, entries, persisted, error, dataframe,
                   documents, ids, runs, existed0, entries0, fvars, lvars>>

\* dataframe = _load_dataframe(CSV_PATH); an exception ends the import.
Load ==
    /\ ipc = "load"
    /\ LET r == LoadDataframe(csv)
       IN  /\ error' = r.error
           /\ dataframe' = r.df
           /\ ipc' = IF r.error.kind = "none" THEN "build" ELSE "failed"
    /\ UNCHANGED <<csv, chroma_exists, entries, persisted, adding, documents, ids,
                   runs, existed0, entries0, fvars, lvars>>

\* documents, ids = _build_documents(dataframe)
Build ==
    /\ ipc = "build"
    /\ documents' = BuildDocuments(dataframe)
    /\ ids' = BuildIds(dataframe)
    /\ ipc' = "insert"
    /\ UNCHANGED <<csv, chroma_exists, entries, persisted, error, adding, dataframe,
                   runs, existed0, entries0, fvars, lvars>>

\* vector_store.add_documents(documents=documents, ids=ids)
Insert ==
    /\ ipc = "insert"
    /\ entries' = AddDocuments(entries, documents, ids)
    /\ chroma_exists' = TRUE
    /\ persisted' = FALSE
    /\ ipc' = "persist"
    /\ UNCHANGED <<csv, error, adding, dataframe, documents, ids, runs, existed0,
                   entries0, fvars, lvars>>

\* vector_store.persist()
Persist ==
    /\ ipc = "persist"
    /\ persisted' = TRUE
    /\ ipc' = "export"
    /\ UNCHANGED <<csv, chroma_exists, entries, error, adding, dataframe, documents,
                   ids, runs, existed0, entries0, fvars, lvars>>

\* retriever = vector_store.as_retriever(search_kwargs={"k": TOP_K})
ExportRetriever ==
    /\ ipc = "export"
    /\ ipc' = "done"
    /\ UNCHANGED <<csv, chroma_exists, entries, persisted, error, adding, dataframe,
                   documents, ids, runs, existed0, entries0, fvars, lvars>>

\* The module is imported again by the next run of the program, on the
\* directory and the CSV the last run left.
RunAgain ==
    /\ ipc \in {"done", "failed"}
    /\ runs < MaxRuns
    /\ runs' = runs + 1
    /\ ipc' = "open"
    /\ error' = NoError
    /\ adding' = FALSE
    /\ dataframe' = <<>>
    /\ documents' = <<>>
    /\ ids' = <<>>
    /\ existed0' = chroma_exists
    /\ entries0' = entries
    /\ UNCHANGED <<csv, chroma_exists, entries, persisted, fvars, lvars>>

IndexNext ==
    \/ OpenStore \/ CheckShouldAdd \/ Load \/ Build \/ Insert \/ Persist
    \/ ExportRetriever \/ RunAgain

(***************************************************************************)
(* main.py: main_loop                                                      *)
(***************************************************************************)
UpperCase ==
    <<"A", "B", "C", "D", "E", "F", "G", "H", "I", "J", "K", "L", "M",
      "N", "O", "P", "Q", "R", "S", "T", "U", "V", "W", "X", "Y", "Z">>
LowerCase ==
    <<"a", "b", "c", "d", "e", "f", "g", "h", "i", "j", "k", "l", "m",
      "n", "o", "p", "q", "r", "s", "t", "u", "v", "w", "x", "y", "z">>

\* str.lower
Lower(s) ==
    [i \in 1..Len(s) |->
        IF \E k \in 1..26 : UpperCase[k] = s[i]
        THEN LowerCase[CHOOSE k \in 1..26 : UpperCase[k] = s[i]]
        ELSE s[i]]

ExitCommands == {<<"q">>, <<"q", "u", "i", "t">>, <<"e", "x", "i", "t">>}

\* _is_exit_command
IsExitCommand(user_input) ==
    IF user_input = <<>> THEN FALSE ELSE Lower(Strip(user_input)) \in ExitCommands

\* PROMPT_TEMPLATE: the fixed text before {reviews}, between {reviews} and
\* {question}, and after {question}, each kept as one token.
TemplateHead ==
    "\nYou are an expert in answering questions about a pizza restaurant.\n\nUse only the information from the provided reviews and do not invent facts.\nIf the reviews are not sufficient, say what is missing.\n\nHere are some relevant reviews:\n"
TemplateMiddle == "\n\nHere is the question to answer:\n"
TemplateTail == "\n"

\* A faulty ChainInput: the two placeholders are exchanged.
ChainInputSwapped(reviews, question) ==
    [reviews |-> question,
     question |-> reviews,
     prompt |-> <<TemplateHead>> \o question \o <<TemplateMiddle>> \o reviews
                    \o <<TemplateTail>>]

\* qa_chain.invoke({"reviews": ..., "question": ...}): the prompt template is
\* filled in and handed to the model.
ChainInput(reviews, question) ==
    [reviews |-> reviews,
     question |-> question,
     prompt |-> <<TemplateHead>> \o reviews \o <<TemplateMiddle>> \o question
                    \o <<TemplateTail>>]

\* What the user types at the prompt.
RawInputs ==
    {<<>>, <<" ">>, <<"q">>, <<"Q">>, <<" ", "q", "u", "i", "t", " ">>,
     <<"E", "x", "i", "t">>, <<"q", "q">>, <<"h", "i">>, <<" ", "h", "i", "?">>}

Responses == {<<"o", "k">>}

StoredDoc(e) == [page_content |-> e.page_content, metadata |-> e.metadata]
StoreEntry(i, c) ==
    [id |-> Str(i - 1), page_content |-> c,
     metadata |-> [rating |-> 5, date |-> "2024-01-01", source_row |-> i - 1]]

\* The stores the loop runs on: empty, two short reviews, TOP_K reviews of
\* which four are longer than the snippet limit.
LoopStores ==
    {<<>>,
     <<StoreEntry(1, <<"a">>), StoreEntry(2, <<"b", "\n", "c">>)>>,
     [i \in 1..TOP_K |->
        StoreEntry(i, IF i = 1 THEN <<"a">> ELSE Fill("a", SnippetMax + i))]}

\* retriever.invoke(question): the TOP_K nearest documents of the store (all of
\* them when it holds fewer), nearest first; the order is the embedding's.
RetrievalResults(store) ==
    LET n == IF Len(store) < TOP_K THEN Len(store) ELSE TOP_K
    IN  {[i \in 1..n |-> StoredDoc(store[f[i]])] :
            f \in {g \in [1..n -> 1..Len(store)] :
                     \A i, j \in 1..n : g[i] = g[j] => i = j}}

LoopInit ==
    /\ lpc = "prompt"
    /\ user_question = <<>>
    /\ retrieved_docs = <<>>
    /\ reviews_block = <<>>
    /\ invocations = <<>>
    /\ response_text = <<>>
    /\ exc = "none"
    /\ console = "welcome"
    /\ steps = <<>>

\* The store the import of vector.py left.
LoopStoreInit ==
    /\ csv = [exists |-> FALSE, columns |-> {}, rows |-> <<>>]
    /\ chroma_exists = TRUE
    /\ entries \in LoopStores
    /\ persisted = TRUE
    /\ ipc = "done"
    /\ error = NoError
    /\ adding = FALSE
    /\ dataframe = <<>>
    /\ documents = <<>>
    /\ ids = <<>>
    /\ runs = 1
    /\ existed0 = TRUE
    /\ entries0 = entries

\* input(...).strip() is an exit command: break.
ReadExit ==
    /\ lpc = "prompt"
    /\ \E raw \in RawInputs :
          /\ user_question' = Strip(raw)
          /\ IsExitCommand(user_question')
    /\ console' = "bye"
    /\ lpc' = "done"
    /\ steps' = <<>>
    /\ exc' = "none"
    /\ invocations' = <<>>
    /\ retrieved_docs' = <<>>
    /\ reviews_block' = <<>>
    /\ response_text' = <<>>
    /\ UNCHANGED <<fvars, ivars>>

\* The input is empty after strip(): the reminder, and continue.
ReadEmpty ==
    /\ lpc = "prompt"
    /\ \E raw \in RawInputs :
          /\ user_question' = Strip(raw)
          /\ ~IsExitCommand(user_question')
          /\ user_question' = <<>>
    /\ console' = "reminder"
    /\ lpc' = "prompt"
    /\ steps' = <<>>
    /\ exc' = "none"
    /\ invocations' = <<>>
    /\ retrieved_docs' = <<>>
    /\ reviews_block' = <<>>
    /\ response_text' = <<>>
    /\ UNCHANGED <<fvars, ivars>>

\* A question: the try block is entered. The locals of the last question are
\* dead (each is assigned before it is read) and are cleared here.
ReadQuestion ==
    /\ lpc = "prompt"
    /\ \E raw \in RawInputs :
          /\ user_question' = Strip(raw)
          /\ ~IsExitCommand(user_question')
          /\ user_question' # <<>>
    /\ lpc' = "retrieve"
    /\ steps' = <<>>
    /\ exc' = "none"
    /\ invocations' = <<>>
    /\ retrieved_docs' = <<>>
    /\ reviews_block' = <<>>
    /\ response_text' = <<>>
    /\ UNCHANGED <<console, fvars, ivars>>

\* retrieved_docs = retriever.invoke(user_question)
Retrieve ==
    /\ lpc = "retrieve"
    /\ steps' = Append(steps, "retrieve")
    /\ retrieved_docs' \in RetrievalResults(entries)
    /\ lpc' = "format"
    /\ UNCHANGED <<user_question, reviews_block, invocations, response_text, exc,
                   console, fvars, ivars>>

\* retriever.invoke raises (the store or the embedding backend is unavailable).
RetrieveRaises ==
    /\ lpc = "retrieve"
    /\ steps' = Append(steps, "retrieve")
    /\ exc' = "retrieve"
    /\ lpc' = "except"
    /\ UNCHANGED <<user_question, retrieved_docs, reviews_block, invocations,
                   response_text, console, fvars, ivars>>

\* reviews_block = _format_reviews_for_prompt(retrieved_docs)
FormatContext ==
    /\ lpc = "format"
    /\ steps' = Append(steps, "format")
    /\ reviews_block' = FormatReviewsForPrompt(retrieved_docs, DefaultMaxChars)
    /\ lpc' = "generate"
    /\ UNCHANGED <<user_question, retrieved_docs, invocations, response_text, exc,
                   console, fvars, ivars>>

\* _format_reviews_for_prompt raises.
FormatRaises ==
    /\ lpc = "format"
    /\ steps' = Append(steps, "format")
    /\ exc' = "format"
    /\ lpc' = "except"
    /\ UNCHANGED <<user_question, retrieved_docs, reviews_block, invocations,
                   response_text, console, fvars, ivars>>

\* response_text = qa_chain.invoke({...}); print("Antwort:"); print(response_text)
Generate ==
    /\ lpc = "generate"
    /\ steps' = Append(steps, "generate")
    /\ invocations' = Append(invocations, ChainInput(reviews_block, user_question))
    /\ response_text' \in Responses
    /\ console' = "answer"
    /\ lpc' = "prompt"
    /\ UNCHANGED <<user_question, retrieved_docs, reviews_block, exc, fvars, ivars>>

\* qa_chain.invoke raises (the model backend fails).
GenerateRaises ==
    /\ lpc = "generate"
    /\ steps' = Append(steps, "generate")
    /\ invocations' = Append(invocations, ChainInput(reviews_block, user_question))
    /\ exc' = "generate"
    /\ lpc' = "except"
    /\ UNCHANGED <<user_question, retrieved_docs, reviews_block, response_text,
                   console, fvars, ivars>>

\* A faulty handler: the loop is left after the report.
HandleExceptionBreak ==
    /\ lpc = "except"
    /\ console' = "error"
    /\ lpc' = "done"
    /\ UNCHANGED <<user_question, retrieved_docs, reviews_block, invocations,
                   response_text, exc, steps, fvars, ivars>>

\* except Exception as exc: the message, the details and the hints are
\* printed, and the while loop goes round.
HandleException ==
    /\ lpc = "except"
    /\ console' = "error"
    /\ lpc' = "prompt"
    /\ UNCHANGED <<user_question, retrieved_docs, reviews_block, invocations,
                   response_text, exc, steps, fvars, ivars>>

LoopNext ==
    \/ ReadExit \/ ReadEmpty \/ ReadQuestion
    \/ Retrieve \/ RetrieveRaises
    \/ FormatContext \/ FormatRaises
    \/ Generate \/ GenerateRaises
    \/ HandleException

LoopIdle ==
    /\ lpc = "idle"
    /\ user_question = <<>>
    /\ retrieved_docs = <<>>
    /\ reviews_block = <<>>
    /\ invocations = <<>>
    /\ response_text = <<>>
    /\ exc = "none"
    /\ console = "none"
    /\ steps = <<>>

FormatNext == FormatEmpty \/ FormatDocs

\* main.py starts: "from vector import retriever" has run the initialisation of
\* vector.py to its end, and main_loop() is called.
StartMainLoop ==
    /\ ipc = "done"
    /\ lpc = "idle"
    /\ lpc' = "prompt"
    /\ console' = "welcome"
    /\ UNCHANGED <<user_question, retrieved_docs, reviews_block, invocations,
                   response_text, exc, steps, fvars, ivars>>

\* The program: the import of vector.py, then the question loop.
Init == FormatIdle /\ IndexInit /\ LoopIdle

Next ==
    \/ OpenStore \/ CheckShouldAdd \/ Load \/ Build \/ Insert \/ Persist
    \/ ExportRetriever
    \/ StartMainLoop
    \/ LoopNext

Spec == Init /\ [][Next]_vars

\* The pure function on enumerated inputs; the initialisation of vector.py over
\* repeated runs; the question loop on a given store.
InitFormat == FormatInit /\ IndexIdle /\ LoopIdle
SpecFormat == InitFormat /\ [][FormatNext]_vars

InitIndex == FormatIdle /\ IndexInit /\ LoopIdle
SpecIndex == InitIndex /\ [][IndexNext]_vars

InitLoop == FormatIdle /\ LoopStoreInit /\ LoopInit
SpecLoop == InitLoop /\ [][LoopNext]_vars

(***************************************************************************)
(* Claims about _format_reviews_for_prompt (checked under SpecFormat)      *)
(***************************************************************************)
Returned == fpc = "returned"

NewlinePositions(s) == {i \in 1..Len(s) : s[i] = "\n"}
LineStarts(s) == {1} \cup {i + 1 : i \in NewlinePositions(s)}
StartsWithAt(s, p, pre) ==
    /\ p + Len(pre) - 1 <= Len(s)
    /\ SubSeq(s, p, p + Len(pre) - 1) = pre
EndsWith(s, suf) ==
    /\ Len(suf) <= Len(s)
    /\ SubSeq(s, Len(s) - Len(suf) + 1, Len(s)) = suf
IsPrefixOf(p, s) == Len(p) <= Len(s) /\ SubSeq(s, 1, Len(p)) = p

\* s is n newline-separated lines and the i-th starts with "- Review #i: "
HasReviewLines(s, n) ==
    /\ Cardinality(LineStarts(s)) = n
    /\ \A p \in LineStarts(s) :
          StartsWithAt(s, p, LinePrefix(Cardinality({q \in LineStarts(s) : q <= p})))

\* C1 as stated, taken at max_chars >= 0: for every non-empty docs and every
\* max_chars the result is exactly len(docs) lines, the i-th starting with
\* "- Review #i: ".
C1_Original ==
    (Returned /\ docs # <<>> /\ max_chars >= 0) => HasReviewLines(result, Len(docs))

\* C1 amended: the same, for the calls in which the joined lines are no longer
\* than max_chars (no cutoff happens).
C1_LinesWhenNotCut ==
    (Returned /\ docs # <<>> /\ Len(joined) <= max_chars)
        => HasReviewLines(result, Len(docs))

C1_Witness ==
    /\ Returned
    /\ Len(docs) = MaxDocs
    /\ max_chars = DefaultMaxChars
    /\ Len(joined) <= max_chars
    /\ \E i \in 1..Len(docs) : Len(Content(docs[i])) > SnippetMax

\* C2 as stated: a content longer than 400 characters is rendered as a snippet
\* of exactly 401 characters, the first 400 followed by the ellipsis.
C2_Original ==
    Returned =>
        \A i \in 1..Len(docs) :
            Len(Content(docs[i])) > SnippetMax =>
                /\ Len(snippets[i]) = SnippetMax + 1
                /\ snippets[i] = SubSeq(Content(docs[i]), 1, SnippetMax) \o <<Ellipsis>>

\* C2 amended: with s the content stripped of surrounding whitespace and its
\* newlines replaced by spaces: if s is longer than 400 characters the snippet
\* is the first 400 characters of s without their trailing whitespace,
\* followed by the ellipsis (at most 401 characters, exactly 401 when the
\* 400th character of s is not whitespace); otherwise the snippet is s.
C2_SnippetShape ==
    Returned =>
        \A i \in 1..Len(docs) :
            LET s == ReplaceNewlines(Strip(Content(docs[i])))
                n == Len(snippets[i])
                body == SubSeq(snippets[i], 1, n - 1)
            IN  IF Len(s) > SnippetMax
                THEN /\ n >= 2 /\ n <= SnippetMax + 1
                     /\ snippets[i][n] = Ellipsis
                     /\ IsPrefixOf(body, s)
                     /\ ~IsSpace(body[n - 1])
                     /\ \A k \in n..SnippetMax : IsSpace(s[k])
                     /\ (~IsSpace(s[SnippetMax]) => n = SnippetMax + 1)
                ELSE snippets[i] = s

C2_Witness ==
    /\ Returned
    /\ \E i \in 1..Len(docs) :
          /\ Len(Content(docs[i])) > SnippetMax
          /\ Len(snippets[i]) < SnippetMax + 1
          /\ snippets[i][Len(snippets[i])] = Ellipsis

\* C3 as stated, taken at max_chars >= 0: when the joined lines are longer
\* than max_chars, the result is the first max_chars characters followed by
\* the truncation marker, of length exactly max_chars + len(marker).
C3_Original ==
    (Returned /\ docs # <<>> /\ Len(joined) > max_chars /\ max_chars >= 0) =>
        /\ Len(result) = max_chars + Len(TruncationMarker)
        /\ EndsWith(result, TruncationMarker)

\* C3 amended: for max_chars >= 0, when the joined lines are longer than
\* max_chars the result is the first max_chars characters of the joined lines
\* without their trailing whitespace, followed by the truncation marker: it
\* ends with the marker, is at most max_chars + len(marker) long, and exactly
\* that long when max_chars is 0 or the character at max_chars is not
\* whitespace.
C3_CutoffShape ==
    (Returned /\ docs # <<>> /\ Len(joined) > max_chars /\ max_chars >= 0) =>
        LET n == Len(result) - Len(TruncationMarker)
            body == SubSeq(result, 1, n)
        IN  /\ EndsWith(result, TruncationMarker)
            /\ n >= 0 /\ n <= max_chars
            /\ IsPrefixOf(body, joined)
            /\ (n > 0 => ~IsSpace(body[n]))
            /\ \A k \in (n + 1)..max_chars : IsSpace(joined[k])
            /\ ((max_chars = 0 \/ ~IsSpace(joined[max_chars])) => n = max_chars)

C3_Witness ==
    /\ Returned
    /\ docs # <<>>
    /\ max_chars >= 0
    /\ Len(joined) > max_chars
    /\ Len(result) < max_chars + Len(TruncationMarker)

\* C4: the result is the no-match sentinel exactly when docs is empty, also
\* for a document whose content is the sentinel text.
C4_SentinelIffEmpty == Returned => ((result = Sentinel) <=> (docs = <<>>))

C4_Witness ==
    /\ Returned
    /\ Len(docs) = 1
    /\ Content(docs[1]) = Sentinel
    /\ result # Sentinel

\* C10: for max_chars >= 0 the result is at most max(max_chars, len(sentinel))
\* long when no cutoff happens, and at most max_chars + len(marker) long for
\* every non-empty docs.
C10_Bounded ==
    (Returned /\ max_chars >= 0) =>
        /\ (docs = <<>> \/ Len(joined) <= max_chars) =>
              Len(result) <= (IF max_chars > Len(Sentinel)
                              THEN max_chars ELSE Len(Sentinel))
        /\ docs # <<>> => Len(result) <= max_chars + Len(TruncationMarker)

C10_Witness ==
    /\ Returned
    /\ Len(docs) = MaxDocs
    /\ max_chars = DefaultMaxChars
    /\ Len(joined) > max_chars
    /\ Len(result) = max_chars + Len(TruncationMarker)

(***************************************************************************)
(* Claims about the initialisation of vector.py (checked under SpecIndex)  *)
(***************************************************************************)
CsvMissing == RequiredCols \ csv.columns
CsvValid == csv.exists /\ CsvMissing = {}

\* C5: a run that finds the store location existing inserts nothing: the
\* stored entries (and so their number) are those the run started with, in
\* every run and for every CSV.
C5_NoInsertWhenStoreExists ==
    existed0 => (Len(entries) = Len(entries0) /\ entries = entries0)

C5_Witness ==
    /\ ipc = "done"
    /\ runs >= 2
    /\ existed0
    /\ CsvValid
    /\ Len(csv.rows) = MaxRows
    /\ Len(entries) # Len(csv.rows)

\* The entry the specification asks for record i (row_index i - 1).
ExpectedEntry(rows, i) ==
    LET title == IF rows[i].Title = NaN THEN <<>> ELSE rows[i].Title
        body == IF rows[i].Review = NaN THEN <<>> ELSE rows[i].Review
    IN  [id |-> Str(i - 1),
         page_content |-> Strip(title \o <<" ">> \o body),
         metadata |-> [rating |-> rows[i].Rating, date |-> rows[i].Date,
                       source_row |-> i - 1]]

\* C6: a first run that starts without the store location and with a valid
\* CSV of n records ends with exactly n entries, one per record in input
\* order, with id str(row_index), content "{title} {body}".strip() and the
\* record's metadata; the ids are pairwise distinct.
C6_Original ==
    (ipc = "done" /\ ~existed0 /\ CsvValid) =>
        /\ Len(entries) = Len(csv.rows)
        /\ \A i \in 1..Len(entries) : entries[i] = ExpectedEntry(csv.rows, i)
        /\ \A i, j \in 1..Len(entries) : entries[i].id = entries[j].id => i = j

\* C8 as stated, taken on runs that start with the store location present:
\* with the CSV absent or a required column missing the run ends in an error,
\* the entries unchanged.
C8_Original ==
    (~CsvValid /\ existed0 /\ ipc \in {"done", "failed"}) =>
        /\ ipc = "failed"
        /\ error.kind \in {"FileNotFoundError", "ValueError"}
        /\ entries = entries0

\* C8 amended: with the CSV absent or a required column missing, a run whose
\* location check says to add (the directory is missing at the check) ends in
\* the error for that case, FileNotFoundError or ValueError naming the missing
\* columns, before documents are built or inserted; a run whose check finds
\* the directory does not read the CSV and raises nothing; in both the entries
\* are those the run started with.
C8_FailsBeforeInsert ==
    (~CsvValid) =>
        /\ entries = entries0
        /\ ipc \notin {"build", "insert", "persist"}
        /\ adding => ipc \in {"load", "failed"}
        /\ (~adding /\ ipc \notin {"open", "check"}) => ipc \in {"export", "done"}
        /\ ipc = "failed" =>
              error = (IF ~csv.exists
                       THEN [kind |-> "FileNotFoundError", missing |-> {}]
                       ELSE [kind |-> "ValueError", missing |-> CsvMissing])

C8_Witness ==
    /\ ipc = "failed"
    /\ csv.exists
    /\ "title" \in csv.columns
    /\ error = [kind |-> "ValueError", missing |-> {"Title", "Date"}]
    /\ entries = entries0

(***************************************************************************)
(* Claims about main_loop (checked under SpecLoop)                         *)
(***************************************************************************)
AllSteps == <<"retrieve", "format", "generate">>

C9_Original ==
    (lpc = "prompt" /\ user_question # <<>>) =>
        /\ steps = AllSteps
        /\ Len(invocations) = 1
        /\ invocations[1].reviews = FormatReviewsForPrompt(retrieved_docs, DefaultMaxChars)
        /\ invocations[1].question = user_question

\* C9 amended: for every non-empty, non-exit question the steps taken are a
\* prefix of retrieve, format, generate (in this order, each at most once, the
\* model never invoked before retrieval and formatting returned); a step that
\* raises is the last one taken; when none raises each runs exactly once and
\* the model is invoked once, with a prompt holding the block formatted from
\* this question's retrieval result (the no-match sentinel for an empty
\* result) and the question text.
C9_StepsInOrder ==
    /\ \E n \in 0..3 : steps = SubSeq(AllSteps, 1, n)
    /\ Len(invocations) = (IF Len(steps) = 3 THEN 1 ELSE 0)
    /\ exc # "none" => steps[Len(steps)] = exc
    /\ lpc = "format" => steps = <<"retrieve">>
    /\ lpc = "generate" => steps = <<"retrieve", "format">>
    /\ (lpc = "prompt" /\ user_question # <<>> /\ exc = "none") =>
          (steps = AllSteps /\ console = "answer")
    /\ Len(invocations) = 1 =>
          LET block == IF retrieved_docs = <<>>
                       THEN Sentinel
                       ELSE FormatReviewsForPrompt(retrieved_docs, DefaultMaxChars)
          IN  /\ invocations[1].reviews = block
              /\ invocations[1].question = user_question
              /\ invocations[1].prompt =
                    <<TemplateHead>> \o block \o <<TemplateMiddle>>
                        \o user_question \o <<TemplateTail>>

C9_Witness ==
    /\ lpc = "prompt"
    /\ console = "answer"
    /\ exc = "none"
    /\ entries = <<>>
    /\ retrieved_docs = <<>>
    /\ steps = AllSteps
    /\ Len(invocations) = 1
    /\ invocations[1].reviews = Sentinel
    /\ invocations[1].question = <<"h", "i", "?">>

====
